---- MODULE Spec2Model ----
(***************************************************************************)
(* Model of the weather service's two route sets over one Postgres store:  *)
(*   server/api/full.js  REST-verb routes with JSON bodies                  *)
(*   server/api/test.js  GET-only routes with path parameters               *)
(* Every `await pool.query(...)` is one atomic step on the store; a handler *)
(* with several queries is several steps, and other requests may run       *)
(* between them.  What a handler computes locally before a query belongs   *)
(* to the step of that query.                                              *)
(*                                                                         *)
(* Left out: the list-locations routes (read only), the schema setup       *)
(* (initDB and its dbInitialized flag: CREATE TABLE IF NOT EXISTS on an    *)
(* existing schema), the VARCHAR lengths, and the parsing of :id (location *)
(* ids are integers here).  User ids are handed out densely.               *)
(***************************************************************************)
EXTENDS Integers, Sequences, FiniteSets, TLC

VARIABLES
    db,     \* the Postgres store: users, locations and their SERIAL counters
    proc,   \* add-location requests in flight, one record per worker slot
    sent,   \* the last HTTP response sent by a write route, with its request
    wx      \* the get-weather request in flight (or the last one finished)

vars == <<db, proc, sent, wx>>

----------------------------------------------------------------------------
(* Bounds of the model.                                                    *)

NumProcs == 2        \* add-location requests that may be in flight together
MaxLocId == 2        \* last location id handed out under Spec
MaxLocIdCap == 6     \* last location id handed out under SpecCap
MaxLocIdWx == 3      \* last location id handed out under SpecWeather

(* The location cap of the add routes.                                     *)
MaxLocations == 5

----------------------------------------------------------------------------
(* JavaScript values as the handlers see them: req.body fields (JSON) and  *)
(* req.params (always non-empty strings).  A number is kept by its decimal *)
(* text so that 0 and "0" are different values.                            *)

Undefined == [type |-> "undefined", text |-> ""]
JsNull == [type |-> "null", text |-> ""]
Num(t) == [type |-> "number", text |-> t]
Str(t) == [type |-> "string", text |-> t]

(* JavaScript truthiness: 0, NaN, "", null and undefined are falsy.        *)
Truthy(v) ==
    CASE v.type = "number" -> v.text \notin {"0", "NaN"}
      [] v.type = "string" -> v.text # ""
      [] OTHER -> FALSE

(* `v || null` *)
OrNull(v) == IF Truthy(v) THEN v ELSE JsNull

----------------------------------------------------------------------------
(* Postgres columns.  A column is <<>> (NULL) or <<value>>.                *)

NULL == <<>>

NumericTexts == {"0", "37", "-122"}

ParseFloat(t) ==
    CASE t = "0" -> 0
      [] t = "37" -> 37
      [] t = "-122" -> -122

FloatText(n) ==
    CASE n = 0 -> "0"
      [] n = 37 -> "37"
      [] n = -122 -> "-122"

(* A query parameter bound to a FLOAT column: null and undefined become    *)
(* NULL, a number or a numeric string becomes the float, anything else is  *)
(* "invalid input syntax for type double precision".                       *)
PgFloatOk(v) == v.type \in {"null", "undefined"} \/ v.text \in NumericTexts
PgFloat(v) == IF v.type \in {"null", "undefined"} THEN NULL ELSE <<ParseFloat(v.text)>>

(* A query parameter bound to a VARCHAR column.                            *)
PgVarchar(v) == IF v.type \in {"null", "undefined"} THEN NULL ELSE <<v.text>>

(* What node-postgres hands back for a column: float8 as a JS number,      *)
(* varchar as a JS string, NULL as null.                                   *)
FromFloat(c) == IF c = NULL THEN JsNull ELSE Num(FloatText(c[1]))
FromVarchar(c) == IF c = NULL THEN JsNull ELSE Str(c[1])

----------------------------------------------------------------------------
(* The schema and the queries the routes issue.                            *)

EmptyDb == [users |-> {}, locations |-> {}, userSeq |-> 1, locSeq |-> 1]

(* SELECT id FROM users WHERE username=$1 *)
SelectUser(d, username) == {u \in d.users : u.username = username}

(* The INSERT without its ON CONFLICT clause and without the UNIQUE index. *)
InsertUser_NoConflictClause(d, username) ==
    [d EXCEPT !.users = @ \cup {[id |-> d.userSeq, username |-> username]},
              !.userSeq = @ + 1]

(* INSERT INTO users (username) VALUES ($1) ON CONFLICT (username) DO NOTHING *)
InsertUser(d, username) ==
    IF \E u \in d.users : u.username = username
    THEN d
    ELSE [d EXCEPT !.users = @ \cup {[id |-> d.userSeq, username |-> username]},
                   !.userSeq = @ + 1]

\* SELECT COUNT( * ) FROM locations WHERE user_id=$1
CountLocations(d, uid) == Cardinality({l \in d.locations : l.user_id = uid})

(* INSERT INTO locations (user_id, zip, lat, lon) VALUES ($1, $2, $3, $4);  *)
(* a column the statement does not name is NULL, as JsNull here.           *)
InsertLocation(d, uid, zip, lat, lon) ==
    [d EXCEPT !.locations = @ \cup {[id |-> d.locSeq, user_id |-> uid,
                                     zip |-> PgVarchar(zip),
                                     lat |-> PgFloat(lat),
                                     lon |-> PgFloat(lon)]},
              !.locSeq = @ + 1]

(* An UPDATE that sets only the columns it is given a value for.           *)
UpdateLocationRow_SetGivenOnly(d, id, zip, lat, lon) ==
    [d EXCEPT !.locations =
        {IF l.id = id
         THEN [l EXCEPT !.zip = IF PgVarchar(zip) = NULL THEN @ ELSE PgVarchar(zip),
                        !.lat = IF PgFloat(lat) = NULL THEN @ ELSE PgFloat(lat),
                        !.lon = IF PgFloat(lon) = NULL THEN @ ELSE PgFloat(lon)]
         ELSE l : l \in @}]

(* UPDATE locations SET zip=$1, lat=$2, lon=$3 WHERE id=$4 *)
UpdateLocationRow(d, id, zip, lat, lon) ==
    [d EXCEPT !.locations =
        {IF l.id = id
         THEN [l EXCEPT !.zip = PgVarchar(zip), !.lat = PgFloat(lat), !.lon = PgFloat(lon)]
         ELSE l : l \in @}]

(* DELETE FROM locations WHERE id=$1 *)
DeleteLocationRow(d, id) ==
    [d EXCEPT !.locations = {l \in @ : l.id # id}]

----------------------------------------------------------------------------
(* Requests and responses.                                                 *)

Request(op, route, username, id, zip, lat, lon) ==
    [op |-> op, route |-> route, username |-> username, id |-> id,
     zip |-> zip, lat |-> lat, lon |-> lon]

Resp(status, body) == [status |-> status, body |-> body]

NoResp == Resp(0, "")

Sent(op, zip, lat, lon, res) ==
    [op |-> op, zip |-> zip, lat |-> lat, lon |-> lon,
     status |-> res.status, body |-> res.body]

NoneSent == Sent("none", Undefined, Undefined, Undefined, NoResp)

(* The shape checks without the second one (zip together with lat/lon).   *)
FullShapeError_NoBothCheck(zip, lat, lon) ==
    IF ~Truthy(zip) /\ ~(Truthy(lat) /\ Truthy(lon))
    THEN Resp(400, "Either zip or lat/lon required")
    ELSE NoResp

(* The location-shape checks of app.post('/location') and                  *)
(* app.put('/location/:id'); NoResp when the payload passes.               *)
FullShapeError(zip, lat, lon) ==
    IF ~Truthy(zip) /\ ~(Truthy(lat) /\ Truthy(lon))
    THEN Resp(400, "Either zip or lat/lon required")
    ELSE IF Truthy(zip) /\ (Truthy(lat) \/ Truthy(lon))
    THEN Resp(400, "Provide only zip or lat/lon, not both")
    ELSE NoResp

(* The parameters of the INSERT / UPDATE statement of each route.          *)
FullParams(req) == <<OrNull(req.zip), OrNull(req.lat), OrNull(req.lon)>>
TestZipParams(req) == <<req.zip, JsNull, JsNull>>
TestLatLonParams(req) == <<JsNull, req.lat, req.lon>>

(* test.js has one route per mode; the path decides which one runs.        *)
IsZipPath(req) == req.zip.type = "string"

Params(req) ==
    IF req.route = "full" THEN FullParams(req)
    ELSE IF IsZipPath(req) THEN TestZipParams(req)
    ELSE TestLatLonParams(req)

ParamsOk(ps) == PgFloatOk(ps[2]) /\ PgFloatOk(ps[3])

ServerError == Resp(500, "internal server error")

----------------------------------------------------------------------------
(* Create user: one INSERT ... ON CONFLICT DO NOTHING.                     *)

CreateUserRun(d, req) ==
    IF req.route = "full" /\ ~Truthy(req.username)
    THEN [db |-> d, res |-> Resp(400, "username required")]
    ELSE [db |-> InsertUser(d, req.username.text),
          res |-> Resp(200, "user created or exists")]

(* Add location, query by query.  AddReceive is what runs before the first *)
(* await: the checks on the body (full.js only).                           *)
AddReceive(req) ==
    IF req.route = "full" /\ ~Truthy(req.username)
    THEN Resp(400, "username required")
    ELSE IF req.route = "full"
    THEN FullShapeError(req.zip, req.lat, req.lon)
    ELSE NoResp

AddLookup(d, req) ==
    IF SelectUser(d, req.username.text) = {}
    THEN Resp(404, "user not found")
    ELSE NoResp

UserId(d, req) == (CHOOSE u \in SelectUser(d, req.username.text) : TRUE).id

(* The cap check off by one. *)
CapReached_OffByOne(count) == count > MaxLocations

CapReached(count) == count >= MaxLocations

AddCount(d, uid) ==
    IF CapReached(CountLocations(d, uid))
    THEN Resp(400, "max 5 locations")
    ELSE NoResp

AddInsert(d, uid, req) ==
    LET ps == Params(req) IN
    IF ParamsOk(ps)
    THEN [db |-> InsertLocation(d, uid, ps[1], ps[2], ps[3]),
          res |-> Resp(200, "location added")]
    ELSE [db |-> d, res |-> ServerError]

(* One add-location request with nothing running between its queries.      *)
AddRun(d, req) ==
    LET err == AddReceive(req)
        nf == AddLookup(d, req)
    IN  IF err # NoResp THEN [db |-> d, res |-> err]
        ELSE IF nf # NoResp THEN [db |-> d, res |-> nf]
        ELSE LET uid == UserId(d, req)
                 full == AddCount(d, uid)
             IN  IF full # NoResp THEN [db |-> d, res |-> full]
                 ELSE AddInsert(d, uid, req)

(* Update location: the shape checks (full.js only), then one UPDATE.      *)
UpdateRun(d, req) ==
    LET err == IF req.route = "full"
               THEN FullShapeError(req.zip, req.lat, req.lon)
               ELSE NoResp
        ps == Params(req)
    IN  IF err # NoResp THEN [db |-> d, res |-> err]
        ELSE IF ~ParamsOk(ps) THEN [db |-> d, res |-> ServerError]
        ELSE [db |-> UpdateLocationRow(d, req.id, ps[1], ps[2], ps[3]),
              res |-> Resp(200, "location updated")]

(* Delete location: one DELETE.                                            *)
DeleteRun(d, req) ==
    [db |-> DeleteLocationRow(d, req.id), res |-> Resp(200, "location deleted")]

(* A whole request served with nothing running between its queries.       *)
(* Express matches a path parameter only against a non-empty segment, so a *)
(* test.js request with an empty parameter reaches no handler.             *)
Routed(req) ==
    \/ req.route = "full"
    \/ /\ req.op \in {"createUser", "add"} => Truthy(req.username)
       /\ req.op \in {"add", "update"} =>
              \/ Truthy(req.zip)
              \/ Truthy(req.lat) /\ Truthy(req.lon)

HandlerRun(d, req) ==
    IF ~Routed(req) THEN [db |-> d, res |-> Resp(404, "Cannot GET")]
    ELSE CASE req.op = "createUser" -> CreateUserRun(d, req)
           [] req.op = "add" -> AddRun(d, req)
           [] req.op = "update" -> UpdateRun(d, req)
           [] req.op = "delete" -> DeleteRun(d, req)

----------------------------------------------------------------------------
(* Get weather: two store queries, then one provider request per location. *)

(* SELECT zip, lat, lon FROM locations: the row as the handler sees it.    *)
SelectRow(l) == [zip |-> FromVarchar(l.zip), lat |-> FromFloat(l.lat), lon |-> FromFloat(l.lon)]

(* zip.includes(','), on the zips of the model. *)
ZipsWithCountry == {"94040,jp"}

BuildForecastUrl(loc) ==
    IF Truthy(loc.lat) /\ Truthy(loc.lon)
    THEN [ok |-> TRUE, url |-> "forecast?lat=" \o loc.lat.text \o "&lon=" \o loc.lon.text]
    ELSE IF Truthy(loc.zip)
    THEN [ok |-> TRUE,
          url |-> "forecast?zip=" \o (IF loc.zip.text \in ZipsWithCountry
                                      THEN loc.zip.text
                                      ELSE loc.zip.text \o ",us")]
    ELSE [ok |-> FALSE, url |-> "Invalid location"]

(* What axios.get settles with: a response whose data is a document or     *)
(* null, or a rejection with a message.                                    *)
Resolved(data) == [kind |-> "resolved", data |-> data, message |-> ""]
Rejected(message) == [kind |-> "rejected", data |-> <<>>, message |-> message]

City(name, country) == <<[name |-> name, country |-> country]>>
ForecastDoc == [city |-> City(<<"Mountain View">>, <<"US">>)]

ProviderOutcomes ==
    { Resolved(<<ForecastDoc>>),
      Resolved(<<>>),
      Rejected("Request failed with status code 404") }

(* `${cityName}${country ? ', ' + country : ''}` *)
Place(doc) ==
    LET cityName == IF doc.city = <<>> THEN <<>> ELSE doc.city[1].name
        country == IF doc.city = <<>> THEN <<>> ELSE doc.city[1].country
    IN  (IF cityName = <<>> \/ cityName = <<"">> THEN "null" ELSE cityName[1])
        \o (IF country = <<>> \/ country = <<"">> THEN "" ELSE ", " \o country[1])

Success(loc, doc) ==
    [location |-> loc, place |-> <<Place(doc)>>, forecast |-> <<doc>>, error |-> <<>>]
Failure(loc, message) ==
    [location |-> loc, place |-> <<>>, forecast |-> <<>>, error |-> <<message>>]

(* The body of the inner try once axios.get has settled, and its catch:    *)
(* reading .city of a null body throws a TypeError, caught like a          *)
(* rejection.                                                              *)
ForecastResult(loc, outcome) ==
    IF outcome.kind = "rejected" THEN Failure(loc, outcome.message)
    ELSE IF outcome.data = <<>>
    THEN Failure(loc, "Cannot read properties of null (reading 'city')")
    ELSE Success(loc, outcome.data[1])

(* What the request did, in order: store queries, provider requests, how  *)
(* each settled, results pushed.                                           *)
OutcomeKind(outcome) ==
    IF outcome.kind = "rejected" THEN "rejected"
    ELSE IF outcome.data = <<>> THEN "null body"
    ELSE "document"

Event(ev, i, out) == [ev |-> ev, i |-> i, out |-> out]

WxState(pc, uid, rows, data, log, status) ==
    [pc |-> pc, uid |-> uid, rows |-> rows, data |-> data, log |-> log, status |-> status]

WxIdle == WxState("idle", 0, <<>>, <<>>, <<>>, 0)

(* The orders in which SELECT may return a set of rows (no ORDER BY).      *)
Orderings(S) ==
    {f \in [1 .. Cardinality(S) -> S] : \A i, j \in 1 .. Cardinality(S) : f[i] = f[j] => i = j}

(* The username check (full.js only) and the user lookup. *)
WxBegin(d, route, username) ==
    IF route = "full" /\ ~Truthy(username)
    THEN WxState("done", 0, <<>>, <<>>, <<>>, 400)
    ELSE IF SelectUser(d, username.text) = {}
    THEN WxState("done", 0, <<>>, <<>>, <<Event("query", 0, "")>>, 404)
    ELSE WxState("read", UserId(d, [username |-> username]), <<>>, <<>>,
                 <<Event("query", 0, "")>>, 0)

(* The SELECT of the user's locations, returned in order `ord`. *)
WxRead(w, ord) ==
    [w EXCEPT !.pc = "loop",
              !.rows = [i \in 1 .. Len(ord) |-> SelectRow(ord[i])],
              !.log = Append(@, Event("query", 0, ""))]

(* One turn of the for loop up to its await: the URL is built; if that     *)
(* throws, the catch records the failure and the loop goes on, else the    *)
(* provider request is sent.                                               *)
WxIssue(w) ==
    LET i == Len(w.data) + 1
        built == BuildForecastUrl(w.rows[i])
    IN  IF built.ok
        THEN [w EXCEPT !.pc = "await", !.log = Append(@, Event("request", i, ""))]
        ELSE [w EXCEPT !.data = Append(@, Failure(w.rows[i], built.url)),
                       !.log = Append(@, Event("record", i, ""))]

(* The loop without its inner try/catch: a failed request ends the whole   *)
(* handler in the outer catch.                                             *)
WxSettle_NoCatch(w, outcome) ==
    LET i == Len(w.data) + 1 IN
    IF OutcomeKind(outcome) = "document"
    THEN [w EXCEPT !.pc = "loop",
                   !.data = Append(@, ForecastResult(w.rows[i], outcome)),
                   !.log = @ \o <<Event("settle", i, OutcomeKind(outcome)), Event("record", i, "")>>]
    ELSE [w EXCEPT !.pc = "done", !.status = 500,
                   !.log = Append(@, Event("settle", i, OutcomeKind(outcome)))]

(* A loop that asks the provider again after a rejected request.           *)
WxSettle_Retry(w, outcome) ==
    LET i == Len(w.data) + 1 IN
    IF outcome.kind = "rejected" /\ Cardinality({k \in DOMAIN w.log : w.log[k].ev = "request" /\ w.log[k].i = i}) < 2
    THEN [w EXCEPT !.pc = "loop",
                   !.log = Append(@, Event("settle", i, OutcomeKind(outcome)))]
    ELSE [w EXCEPT !.pc = "loop",
                   !.data = Append(@, ForecastResult(w.rows[i], outcome)),
                   !.log = @ \o <<Event("settle", i, OutcomeKind(outcome)), Event("record", i, "")>>]

(* The provider request settles and its result is pushed. *)
WxSettle(w, outcome) ==
    LET i == Len(w.data) + 1 IN
    [w EXCEPT !.pc = "loop",
              !.data = Append(@, ForecastResult(w.rows[i], outcome)),
              !.log = @ \o <<Event("settle", i, OutcomeKind(outcome)), Event("record", i, "")>>]

(* res.json(data) *)
WxRespond(w) == [w EXCEPT !.pc = "done", !.status = 200]

----------------------------------------------------------------------------
(* The state machine.                                                      *)

Procs == 1 .. NumProcs

Idle == [pc |-> "idle", uid |-> 0,
         req |-> Request("none", "none", Undefined, 0, Undefined, Undefined, Undefined)]

Init ==
    /\ db = EmptyDb
    /\ proc = [p \in Procs |-> Idle]
    /\ sent = NoneSent
    /\ wx = WxIdle

SentFor(req, res) == Sent(req.op, req.zip, req.lat, req.lon, res)

InFlight == Cardinality({p \in Procs : proc[p].pc # "idle"})

CreateUser(req) ==
    LET r == CreateUserRun(db, req) IN
    /\ db' = r.db
    /\ sent' = SentFor(req, r.res)
    /\ UNCHANGED <<proc, wx>>

(* The request arrives, its body is checked and the user is looked up.     *)
AddLocationBegin(p, req, maxId) ==
    /\ proc[p].pc = "idle"
    /\ db.locSeq + InFlight <= maxId
    /\ LET err == AddReceive(req)
           nf == AddLookup(db, req)
       IN  IF err # NoResp
           THEN /\ sent' = SentFor(req, err)
                /\ UNCHANGED proc
           ELSE IF nf # NoResp
           THEN /\ sent' = SentFor(req, nf)
                /\ UNCHANGED proc
           ELSE /\ proc' = [proc EXCEPT ![p] = [pc |-> "count", uid |-> UserId(db, req), req |-> req]]
                /\ UNCHANGED sent
    /\ UNCHANGED <<db, wx>>

(* The COUNT query and the cap check.                                      *)
AddLocationCount(p) ==
    /\ proc[p].pc = "count"
    /\ LET full == AddCount(db, proc[p].uid) IN
       IF full # NoResp
       THEN /\ sent' = SentFor(proc[p].req, full)
            /\ proc' = [proc EXCEPT ![p] = Idle]
       ELSE /\ proc' = [proc EXCEPT ![p].pc = "insert"]
            /\ UNCHANGED sent
    /\ UNCHANGED <<db, wx>>

(* The INSERT query and the response.                                      *)
AddLocationInsert(p) ==
    /\ proc[p].pc = "insert"
    /\ LET r == AddInsert(db, proc[p].uid, proc[p].req) IN
       /\ db' = r.db
       /\ sent' = SentFor(proc[p].req, r.res)
    /\ proc' = [proc EXCEPT ![p] = Idle]
    /\ UNCHANGED wx

UpdateLocation(req) ==
    LET r == UpdateRun(db, req) IN
    /\ db' = r.db
    /\ sent' = SentFor(req, r.res)
    /\ UNCHANGED <<proc, wx>>

DeleteLocation(req) ==
    LET r == DeleteRun(db, req) IN
    /\ db' = r.db
    /\ sent' = SentFor(req, r.res)
    /\ UNCHANGED <<proc, wx>>

(* The get-weather request, step by step.                                  *)
WeatherBegin(route, username) ==
    /\ wx.pc \in {"idle", "done"}
    /\ wx' = WxBegin(db, route, username)
    /\ UNCHANGED <<db, proc, sent>>

WeatherRead ==
    /\ wx.pc = "read"
    /\ \E ord \in Orderings({l \in db.locations : l.user_id = wx.uid}) :
          wx' = WxRead(wx, ord)
    /\ UNCHANGED <<db, proc, sent>>

WeatherIssue ==
    /\ wx.pc = "loop"
    /\ Len(wx.data) < Len(wx.rows)
    /\ wx' = WxIssue(wx)
    /\ UNCHANGED <<db, proc, sent>>

WeatherSettle ==
    /\ wx.pc = "await"
    /\ \E outcome \in ProviderOutcomes : wx' = WxSettle(wx, outcome)
    /\ UNCHANGED <<db, proc, sent>>

WeatherRespond ==
    /\ wx.pc = "loop"
    /\ Len(wx.data) = Len(wx.rows)
    /\ wx' = WxRespond(wx)
    /\ UNCHANGED <<db, proc, sent>>

----------------------------------------------------------------------------
(* Inputs.                                                                 *)

Routes == {"full", "test"}

Usernames == {"alice", "bob"}

(* JSON bodies of full.js, as <<zip, lat, lon>>: nothing, a zip, a pair, a  *)
(* pair with lat=0, one coordinate alone, a zip with a pair, a zip with    *)
(* lat=0 alone.                                                            *)
FullPayloads ==
    { <<Undefined, Undefined, Undefined>>,
      <<Str("94040"), Undefined, Undefined>>,
      <<Undefined, Num("37"), Num("-122")>>,
      <<Undefined, Num("0"), Num("-122")>>,
      <<Undefined, Num("37"), Undefined>>,
      <<Str("94040"), Num("37"), Num("-122")>>,
      <<Str("94040"), Num("0"), Undefined>> }

(* Path parameters of test.js: non-empty strings. *)
TestZips == {Str("94040")}
TestLats == {Str("0"), Str("37"), Str("abc")}
TestLons == {Str("-122")}

Payloads(route) ==
    IF route = "full"
    THEN FullPayloads
    ELSE {<<z, Undefined, Undefined>> : z \in TestZips}
         \cup {<<Undefined, la, lo>> : la \in TestLats, lo \in TestLons}

UsernameInputs(route) ==
    {Str(u) : u \in Usernames} \cup (IF route = "full" THEN {Undefined} ELSE {})

Next ==
    \/ \E r \in Routes : \E u \in UsernameInputs(r) :
          CreateUser(Request("createUser", r, u, 0, Undefined, Undefined, Undefined))
    \/ \E r \in Routes : \E u \in UsernameInputs(r) : \E pl \in Payloads(r) :
          AddLocationBegin(1, Request("add", r, u, 0, pl[1], pl[2], pl[3]), MaxLocId)
    \/ AddLocationCount(1)
    \/ AddLocationInsert(1)
    \/ \E r \in Routes : \E id \in 1 .. MaxLocId : \E pl \in Payloads(r) :
          UpdateLocation(Request("update", r, Undefined, id, pl[1], pl[2], pl[3]))
    \/ \E r \in Routes : \E id \in 1 .. MaxLocId :
          DeleteLocation(Request("delete", r, Undefined, id, Undefined, Undefined, Undefined))

Spec == Init /\ [][Next]_vars

(* The cap under concurrency: several add-location requests in flight, all *)
(* for one user and with the same zip payload.                             *)
CapUsernames == {"alice", "bob"}

NextCap ==
    \/ \E r \in Routes : \E u \in CapUsernames :
          CreateUser(Request("createUser", r, Str(u), 0, Undefined, Undefined, Undefined))
    \/ \E p \in Procs : \E r \in Routes :
          AddLocationBegin(p, Request("add", r, Str("alice"), 0, Str("94040"), Undefined, Undefined),
                           MaxLocIdCap)
    \/ \E p \in Procs : AddLocationCount(p)
    \/ \E p \in Procs : AddLocationInsert(p)
    \/ \E r \in Routes : \E id \in 1 .. MaxLocIdCap :
          UpdateLocation(Request("update", r, Undefined, id, Str("94040"), Undefined, Undefined))
    \/ \E r \in Routes : \E id \in 1 .. MaxLocIdCap :
          DeleteLocation(Request("delete", r, Undefined, id, Undefined, Undefined, Undefined))

SpecCap == Init /\ [][NextCap]_vars

(* Get-weather requests against a store that test.js add-location requests *)
(* fill meanwhile, with a location of each kind: a zip, a coordinate pair, *)
(* a pair with lat=0.                                                      *)
WxPayloads ==
    { <<Str("94040"), Undefined, Undefined>>,
      <<Undefined, Str("37"), Str("-122")>>,
      <<Undefined, Str("0"), Str("-122")>> }

NextWeather ==
    \/ CreateUser(Request("createUser", "test", Str("alice"), 0, Undefined, Undefined, Undefined))
    \/ \E pl \in WxPayloads :
          AddLocationBegin(1, Request("add", "test", Str("alice"), 0, pl[1], pl[2], pl[3]),
                           MaxLocIdWx)
    \/ AddLocationCount(1)
    \/ AddLocationInsert(1)
    \/ \E r \in Routes : \E u \in UsernameInputs(r) : WeatherBegin(r, u)
    \/ WeatherRead
    \/ WeatherIssue
    \/ WeatherSettle
    \/ WeatherRespond

SpecWeather == Init /\ [][NextWeather]_vars

----------------------------------------------------------------------------
(* Properties of the stored locations and of the write routes.             *)

ZipMode(l) == l.zip # NULL /\ l.lat = NULL /\ l.lon = NULL
CoordMode(l) == l.zip = NULL /\ l.lat # NULL /\ l.lon # NULL

(* C2: every stored location has zip set XOR (lat and lon both set): never *)
(* zip with a coordinate, never one coordinate alone, never nothing.       *)
C2_ZipXorCoords == \A l \in db.locations : ZipMode(l) \/ CoordMode(l)

C2_Witness ==
    /\ sent.op = "update" /\ sent.status = 200
    /\ \E l \in db.locations : ZipMode(l)
    /\ \E l \in db.locations : CoordMode(l) /\ l.lat = <<0>>

(* A field of the payload is present when the request carries it, whatever *)
(* its value (0 included).                                                 *)
Present(v) == v.type # "undefined"

InvalidShape(zip, lat, lon) ==
    \/ ~Present(zip) /\ ~(Present(lat) /\ Present(lon))
    \/ Present(zip) /\ (Present(lat) \/ Present(lon))

ShapeRejected ==
    /\ sent.status = 400
    /\ sent.body \in {"Either zip or lat/lon required", "Provide only zip or lat/lon, not both"}

(* C3: an add-location or update-location request (one that names a user)  *)
(* is rejected as an invalid location shape if and only if its payload has *)
(* neither a zip nor a complete lat/lon pair, or has a zip together with a *)
(* coordinate; lat=0 and lon=0 count as present.                           *)
C3_ShapeRejectedIff ==
    (sent.op \in {"add", "update"} /\ sent.body # "username required")
        => (ShapeRejected <=> InvalidShape(sent.zip, sent.lat, sent.lon))

(* C9: buildForecastUrl returns a URL for every location in the store.     *)
C9_BuilderNeverThrows == \A l \in db.locations : BuildForecastUrl(SelectRow(l)).ok

ZipPayload(req) == IF req.route = "full" THEN Present(req.zip) ELSE IsZipPath(req)

UpdateRequests(id) ==
    UNION {{Request("update", r, Undefined, id, pl[1], pl[2], pl[3]) : pl \in Payloads(r)} :
              r \in Routes}

RowOf(d, id) == CHOOSE l \in d.locations : l.id = id

(* C6: an accepted update to a zip sets zip and clears lat and lon, an     *)
(* accepted update to coordinates sets lat and lon and clears zip; a       *)
(* zip-mode location updated to coordinates and back to its zip is the     *)
(* record it was; no update changes any location's owner or id, another    *)
(* location, or the number of locations.                                   *)
C6_UpdateSwitchesMode ==
    \A l \in db.locations : \A req \in UpdateRequests(l.id) :
        LET out == UpdateRun(db, req)
            new == RowOf(out.db, l.id)
        IN  /\ Cardinality(out.db.locations) = Cardinality(db.locations)
            /\ out.db.users = db.users
            /\ \A x \in db.locations : x.id # l.id => x \in out.db.locations
            /\ new.user_id = l.user_id
            /\ out.res.status # 200 => out.db = db
            /\ (out.res.status = 200 /\ ZipPayload(req)) =>
                   new.zip = <<req.zip.text>> /\ new.lat = NULL /\ new.lon = NULL
            /\ (out.res.status = 200 /\ ~ZipPayload(req)) =>
                   /\ new.zip = NULL
                   /\ new.lat = <<ParseFloat(req.lat.text)>>
                   /\ new.lon = <<ParseFloat(req.lon.text)>>
            /\ (ZipMode(l) /\ ~ZipPayload(req)) =>
                   \A r \in Routes :
                       UpdateRun(out.db, Request("update", r, Undefined, l.id,
                                                 Str(l.zip[1]), Undefined, Undefined)).db = db

C6_Witness ==
    /\ sent.op = "update" /\ sent.status = 200 /\ Present(sent.zip)
    /\ \E l \in db.locations : ZipMode(l)
    /\ \E l \in db.locations : CoordMode(l)

CreateRequests == {Request("createUser", r, Str(u), 0, Undefined, Undefined, Undefined) :
                      r \in Routes, u \in Usernames}

(* C7: create-user is idempotent: a username never has two user rows, and  *)
(* a create-user request for a username, at any point of any interleaving, *)
(* reports success, leaves exactly one row with that username, changes no  *)
(* location, and changes nothing at all when the user already exists.      *)
C7_CreateUserIdempotent ==
    /\ \A u1, u2 \in db.users : u1.username = u2.username => u1 = u2
    /\ \A req \in CreateRequests :
          LET out == CreateUserRun(db, req) IN
          /\ out.res = Resp(200, "user created or exists")
          /\ Cardinality(SelectUser(out.db, req.username.text)) = 1
          /\ out.db.locations = db.locations
          /\ db.users \subseteq out.db.users
          /\ SelectUser(db, req.username.text) # {} => out.db = db

C7_Witness ==
    /\ sent.op = "createUser" /\ sent.status = 200
    /\ db.locations # {}
    /\ \A u \in db.users : \E l \in db.locations : l.user_id = u.id
    /\ \E p \in Procs : proc[p].pc = "insert"

(* The logical operations of the service on store d (updates and deletes  *)
(* of the stored locations), and how each route set carries one: full.js   *)
(* in a JSON body (coordinates as numbers), test.js in the path (every     *)
(* parameter a string).                                                    *)
LogicalOps(d) ==
    LET ids == {l.id : l \in d.locations}
        names == Usernames \cup {""}
    IN  {[op |-> "createUser", username |-> u, id |-> 0, zip |-> "", lat |-> "", lon |-> ""] :
            u \in names}
        \cup {[op |-> "add", username |-> u, id |-> 0, zip |-> "94040", lat |-> "", lon |-> ""] :
            u \in names}
        \cup {[op |-> "add", username |-> u, id |-> 0, zip |-> "", lat |-> la, lon |-> "-122"] :
            u \in names, la \in {"0", "37"}}
        \cup {[op |-> "update", username |-> "", id |-> i, zip |-> "94040", lat |-> "", lon |-> ""] :
            i \in ids}
        \cup {[op |-> "update", username |-> "", id |-> i, zip |-> "", lat |-> la, lon |-> "-122"] :
            i \in ids, la \in {"0", "37"}}
        \cup {[op |-> "delete", username |-> "", id |-> i, zip |-> "", lat |-> "", lon |-> ""] :
            i \in ids}

JsonString(t) == Str(t)
JsonNumber(t) == IF t = "" THEN Undefined ELSE Num(t)
JsonField(t) == IF t = "" THEN Undefined ELSE Str(t)

FullEncode(o) ==
    Request(o.op, "full", JsonString(o.username), o.id,
            JsonField(o.zip), JsonNumber(o.lat), JsonNumber(o.lon))

PathParam(t) == IF t = "" THEN Undefined ELSE Str(t)

TestEncode(o) ==
    Request(o.op, "test", Str(o.username), o.id,
            PathParam(o.zip), PathParam(o.lat), PathParam(o.lon))

(* C8: from the same store, the same logical operation is accepted by both *)
(* route sets or rejected by both, and leaves the same store.              *)
C8_RoutesEquivalent ==
    \A o \in LogicalOps(db) :
        LET f == HandlerRun(db, FullEncode(o))
            t == HandlerRun(db, TestEncode(o))
        IN  /\ (f.res.status = 200) <=> (t.res.status = 200)
            /\ f.db = t.db

----------------------------------------------------------------------------
(* The location cap.                                                       *)

(* C1: every user owns at most 5 locations, whatever the interleaving of   *)
(* add, update and delete requests.                                        *)
C1_AtMostFive == \A u \in db.users : CountLocations(db, u.id) <= MaxLocations

AddRequests(username) ==
    UNION {{Request("add", r, Str(username), 0, pl[1], pl[2], pl[3]) : pl \in Payloads(r)} :
              r \in Routes}

(* A payload the route accepts and the store can hold. *)
Accepted(req) == AddReceive(req) = NoResp /\ ParamsOk(Params(req))

(* C4: for an existing user and an accepted payload, an add-location       *)
(* request served with nothing in between is rejected with 'max 5          *)
(* locations' and changes nothing when the user has 5 locations or more,   *)
(* and otherwise succeeds and adds exactly one location, owned by that     *)
(* user; no update-location request is rejected because of the cap.        *)
C4_CapOnAddOnly ==
    /\ \A u \in db.users : \A req \in {x \in AddRequests(u.username) : Accepted(x)} :
          LET out == AddRun(db, req)
              added == out.db.locations \ db.locations
          IN  IF CountLocations(db, u.id) >= 5
              THEN out.res = Resp(400, "max 5 locations") /\ out.db = db
              ELSE /\ out.res = Resp(200, "location added")
                   /\ db.locations \subseteq out.db.locations
                   /\ Cardinality(added) = 1
                   /\ \A l \in added : l.user_id = u.id
                   /\ out.db.users = db.users
    /\ \A l \in db.locations : \A req \in UpdateRequests(l.id) :
          LET out == UpdateRun(db, req) IN
          /\ out.res.body # "max 5 locations"
          /\ Accepted(req) => out.res.status = 200

C4_Witness ==
    /\ sent.op = "add" /\ sent.body = "max 5 locations"
    /\ \E u \in db.users : CountLocations(db, u.id) = 5
    /\ \E u \in db.users : CountLocations(db, u.id) < 5

----------------------------------------------------------------------------
(* Get weather.                                                            *)

HasForecast(e) == e.forecast # <<>> /\ e.place # <<>> /\ e.error = <<>>
HasError(e) == e.error # <<>> /\ e.forecast = <<>> /\ e.place = <<>>

(* The provider request for location i came back with a forecast document. *)
Succeeded(i) == \E k \in DOMAIN wx.log : wx.log[k] = Event("settle", i, "document")

RequestsFor(i) == {k \in DOMAIN wx.log : wx.log[k].ev = "request" /\ wx.log[k].i = i}

(* C5: the get-weather response for an existing user is a list with one    *)
(* element per location read, in the order read; element i carries         *)
(* forecast and place and no error exactly when the provider request for   *)
(* location i succeeded, and error without forecast or place otherwise; no *)
(* provider failure makes the response a server error or drops or moves an *)
(* element.                                                                *)
C5_OneResultPerLocation ==
    /\ wx.status \in {0, 200, 400, 404}
    /\ Len(wx.data) <= Len(wx.rows)
    /\ \A i \in DOMAIN wx.data :
          /\ wx.data[i].location = wx.rows[i]
          /\ IF Succeeded(i) THEN HasForecast(wx.data[i]) ELSE HasError(wx.data[i])
    /\ (wx.pc = "done" /\ Len(wx.log) >= 2) =>
          wx.status = 200 /\ Len(wx.data) = Len(wx.rows)

C5_Witness ==
    /\ wx.pc = "done" /\ wx.status = 200 /\ Len(wx.data) = 3
    /\ HasForecast(wx.data[1]) /\ HasForecast(wx.data[3])
    /\ HasError(wx.data[2]) /\ RequestsFor(2) # {}

(* C10: within one get-weather call the provider requests go out one at a  *)
(* time in the order of the locations read: the request for location i is  *)
(* sent only after the results of locations 1..i-1 are recorded, a         *)
(* location is requested at most once (no retry), exactly once when its    *)
(* URL builds and never when the build fails (it gets an error result      *)
(* instead), and no store query follows a provider request.                *)
C10_OneAttemptInOrder ==
    LET log == wx.log
        records == [k \in DOMAIN log |-> Cardinality({j \in 1 .. k - 1 : log[j].ev = "record"})]
        pending == Cardinality({k \in DOMAIN log : log[k].ev = "request"})
                   - Cardinality({k \in DOMAIN log : log[k].ev = "settle"})
    IN  /\ \A k \in DOMAIN log : log[k].ev = "request" =>
              /\ records[k] = log[k].i - 1
              /\ BuildForecastUrl(wx.rows[log[k].i]).ok
              /\ \A j \in DOMAIN log : j > k => log[j].ev # "query"
        /\ \A k \in DOMAIN log : log[k].ev = "record" => log[k].i = records[k] + 1
        /\ pending = (IF wx.pc = "await" THEN 1 ELSE 0)
        /\ \A i \in DOMAIN wx.rows : Cardinality(RequestsFor(i)) <= 1
        /\ \A i \in DOMAIN wx.data :
              IF BuildForecastUrl(wx.rows[i]).ok
              THEN Cardinality(RequestsFor(i)) = 1
              ELSE RequestsFor(i) = {} /\ wx.data[i] = Failure(wx.rows[i], "Invalid location")

C10_Witness ==
    /\ wx.pc = "done" /\ wx.status = 200 /\ Len(wx.data) = 3
    /\ RequestsFor(1) # {} /\ ~Succeeded(1)
    /\ RequestsFor(2) = {}
    /\ RequestsFor(3) # {}

====
